---- MODULE Spec2Model ----
(***************************************************************************)
(* Model of the Ember Mug session manager (custom_components/ember_mug).  *)
(*                                                                         *)
(* EmberMug.async_run, connect, update_all and disconnect are coroutines   *)
(* on one cooperative event loop: the code between two awaits runs         *)
(* atomically.  A task's pc names the await it is suspended in (the        *)
(* client operation that is in flight); one action resumes the coroutine   *)
(* with the operation's outcome and runs it to its next await.             *)
(*                                                                         *)
(* A client operation ends "ok", with a BleakError ("bleak") or with any   *)
(* other Exception ("other"); the code distinguishes the two kinds itself  *)
(* (mug.py lines 149-152).                                                 *)
(***************************************************************************)
EXTENDS Integers, Sequences, FiniteSets, TLC

\* ---------------------------------------------------------------- bounds
\* Loop tasks ever created (the first one and the restarts).
MaxTasks == 2
\* Recursive connect() calls (failed bursts) inside one connect() call.
MaxDepth == 1
\* Calls of disconnect().
MaxDisconnects == 1

\* ------------------------------------------------------ program constants
\* range(1, 10 + 1) in connect().
MaxAttempts == 10
\* range(15) in async_run().
DwellChecks == 15
\* None, for the numeric attributes (state, temperatures, battery).
None == -1

VARIABLES
    loop,             \* self._loop
    state,            \* self.state
    led_colour_rgb,   \* self.led_colour_rgb
    current_temp,     \* self.current_temp, in hundredths of a degree
    target_temp,      \* self.target_temp, in hundredths of a degree
    battery,          \* self.battery
    available,        \* self.available
    uuid_debug,       \* self.uuid_debug
    use_metric,       \* self.use_metric
    clientConnected,  \* what client.is_connected() answers
    subscribed,       \* the client holds the state_notify callback
    tasks,            \* the async_run tasks created with async_create_task
    dis,              \* the caller of disconnect()
    wr,               \* the caller of set_target_temp()
    sweep,            \* the caller of update_uuid_debug()
    wire,             \* codec runs: the payload read or written
    ev                \* what the last step did (observation only)

vars == <<loop, state, led_colour_rgb, current_temp, target_temp, battery,
          available, uuid_debug, use_metric, clientConnected, subscribed,
          tasks, dis, wr, sweep, wire, ev>>

device == <<state, led_colour_rgb, current_temp, target_temp, battery, available,
            uuid_debug>>

\* ------------------------------------------------------------ byte codec
\* int.from_bytes(b, byteorder="little", signed=False)
RECURSIVE FromBytesLittle(_)
FromBytesLittle(b) ==
    IF b = <<>> THEN 0 ELSE Head(b) + 256 * FromBytesLittle(Tail(b))

\* round(x, 2) of the quotient num/den >= 0, as a whole number of hundredths
\* (ties cannot occur for the denominators used: 1 and 5).
RoundHundredths(num, den) == (2 * num + den) \div (2 * den)

\* EmberMug._temp_from_bytes: raw * 0.01, to fahrenheit (temp * 9 / 5) + 32
\* unless use_metric, rounded to two decimals.  The result is the float
\* nearest to h/100 and is kept as the whole number h of hundredths.
TempFromBytes(temp_bytes, metric) ==
    LET raw == FromBytesLittle(temp_bytes)
    IN  IF metric THEN RoundHundredths(raw, 1)
        ELSE RoundHundredths(9 * raw + 16000, 5)

\* r, g, b, _ = payload: the unpacking needs exactly four items, anything
\* else raises ValueError.
ColourDecodes(payload) == Len(payload) = 4

\* Mutant: the unpacking is off by one (_, r, g, b = payload).
ColourFromBytesShifted(payload) == SubSeq(payload, 2, 4)

ColourFromBytes(payload) == SubSeq(payload, 1, 3)

\* float(current_battery[0]): IndexError on an empty payload.
BatteryDecodes(payload) == Len(payload) >= 1

BatteryFromBytes(payload) == payload[1]

\* Mutant: the status 1 is not filtered out.
StateAfterNotifyAnyChange(old, data) ==
    LET new_state == data[1]
    IN  IF new_state # old THEN new_state ELSE old

\* state_notify: new_state = data[0]; stored unless it is 1 or the current one.
StateAfterNotify(old, data) ==
    LET new_state == data[1]
    IN  IF new_state \notin {1, old} THEN new_state ELSE old

\* 2^n, and 2^n modulo 100.
RECURSIVE Pow2(_)
Pow2(n) == IF n = 0 THEN 1 ELSE 2 * Pow2(n - 1)

RECURSIVE Pow2Mod100(_)
Pow2Mod100(n) == IF n = 0 THEN 1 ELSE (2 * Pow2Mod100(n - 1)) % 100

\* floor(log2(h)) for h >= 1.
RECURSIVE Log2(_)
Log2(h) == IF h < 2 THEN 0 ELSE 1 + Log2(h \div 2)

\* The exponent e for which the float nearest to h/100 (h >= 1) is M / 2^e
\* with 2^52 <= M < 2^53: 52 - floor(log2(h/100)).
RECURSIVE FloatExp(_, _, _)
FloatExp(num, den, e) ==
    IF num >= 2 * den THEN FloatExp(num, 2 * den, e - 1)
    ELSE IF num < den THEN FloatExp(2 * num, den, e + 1)
    ELSE e

\* int(temp / 0.01) of set_target_temp, in IEEE-754 double arithmetic, for
\* temp the float nearest to h/100 (what round(x, 2) returns).
\*   0.01 is the double C / 2^59 with 100 * C = 2^59 + 12;
\*   temp is M / 2^e with h * 2^e = 100 * M + rho, -50 < rho < 50;
\*   the exact quotient temp / 0.01 is h - t / C, where
\*     t = C * h - M * 2^(59 - e) = (12 * h + rho * 2^(59 - e)) / 100;
\*   the division rounds it to the nearest double: up to h when it is within
\*   half a spacing 2^(-s) of the doubles below h, that is when
\*   t <= C / 2^s (= 2^(59 - s) \div 100 as t is whole), else to a double
\*   below h, which int() truncates to h - 1.
IntOfTempOver001(h) ==
    IF h = 0 THEN 0
    ELSE LET e == FloatExp(h, 100, 52)
             k == Log2(h)
             s == IF h = Pow2(k) THEN 54 - k ELSE 53 - k
             m == ((h % 100) * Pow2Mod100(e)) % 100
             rho == IF m < 50 THEN m ELSE m - 100
             t == (12 * h + rho * Pow2(59 - e)) \div 100
         IN  IF t <= Pow2(59 - s) \div 100 THEN h ELSE h - 1

\* int.to_bytes(2, "little"): OverflowError unless 0 <= n < 2^16.
FitsTwoBytes(n) == n >= 0 /\ n < 65536

ToBytesLittle(n) == <<n % 256, n \div 256>>

\* set_target_temp, line 11: the payload written for temp (h hundredths).
TargetTempPayload(h) == ToBytesLittle(IntOfTempOver001(h))

\* update_attrs of update_all, in order.
UpdateAttrs == <<"led_colour", "current_temp", "target_temp", "battery">>

\* ------------------------------------------------- inputs of the session
Results == {"ok", "bleak", "other"}

\* Payloads the reads of a poll cycle may return.
ColourPayloads == {<<10, 20, 30, 40>>, <<10, 20, 30>>}
TempPayloads == {<<102, 8>>}
BatteryPayloads == {<<80>>, <<>>}
NotifyPayloads == {<<1>>, <<3>>, <<5>>}

ReadPayloads(k) ==
    CASE UpdateAttrs[k] = "led_colour" -> ColourPayloads
      [] UpdateAttrs[k] = "battery" -> BatteryPayloads
      [] OTHER -> TempPayloads

\* ------------------------------------------------------------ loop tasks
NoTask == [pc |-> "none", i |-> 0, connected |-> FALSE, depth |-> 0,
           caller |-> "none", k |-> 0, j |-> 0]
ReadyTask == [NoTask EXCEPT !.pc = "ready"]
DoneTask == [NoTask EXCEPT !.pc = "done"]

TaskIds == 1..MaxTasks
NumTasks == Cardinality({t \in TaskIds : tasks[t].pc # "none"})
LiveTasks == {t \in TaskIds : tasks[t].pc \notin {"none", "done"}}

ConnectPcs == {"conn_connect", "conn_pair", "conn_sleep", "conn_sub"}

NoEvent == [op |-> "init", res |-> "ok", cb |-> 0, exc |-> FALSE,
            poll |-> "none", data |-> <<>>]

\* The outcome of resuming a coroutine: its frame at the next await, the calls
\* of async_update_callback made on the way, and whether an exception reached
\* the handler of async_run.
Out(f, cb, exc, poll) == [f |-> f, cb |-> cb, exc |-> exc, poll |-> poll]

\* UNKNOWN_READ_UUIDS, the characteristics of the diagnostic sweep in the
\* order of the list (the order of the keys of self.uuid_debug), and the
\* None of a characteristic not read yet; a reading str(value) is kept as
\* <<value>>.
UnknownReadUuids == <<"uuid_a", "uuid_b">>
UuidDebugKeys == {UnknownReadUuids[n] : n \in 1..Len(UnknownReadUuids)}
NoReading == <<>>

\* update_uuid_debug is not running.
NoSweep == [pc |-> "idle", n |-> 0]

NoWire == [dir |-> "none", attr |-> "none", data |-> <<>>]

Init ==
    /\ loop = FALSE
    /\ state = None
    /\ led_colour_rgb = <<255, 255, 255>>
    /\ current_temp = None
    /\ target_temp = None
    /\ battery = None
    /\ available = FALSE
    /\ uuid_debug = [uuid \in UuidDebugKeys |-> NoReading]
    /\ use_metric = TRUE
    /\ clientConnected = FALSE
    /\ subscribed = FALSE
    /\ tasks = [t \in TaskIds |-> IF t = 1 THEN ReadyTask ELSE NoTask]
    /\ dis = [pc |-> "idle", calls |-> 0]
    /\ wr = "idle"
    /\ sweep = NoSweep
    /\ wire = NoWire
    /\ ev = NoEvent

\* ------------------------------------------------ the coroutines' control
\* connect(), lines 125-126: connected = False, first attempt, client.connect()
\* in flight.
EnterConnect(f, caller) ==
    [f EXCEPT !.pc = "conn_connect", !.i = 1, !.connected = FALSE,
              !.depth = 0, !.caller = caller, !.k = 0, !.j = 0]

\* update_all(), line 169: is_connected() in flight.
EnterUpdateAll(f) == [NoTask EXCEPT !.pc = "poll_chk"]

\* update_all(), lines 171-172: the first read in flight.
StartReads(f) == [NoTask EXCEPT !.pc = "poll_read", !.k = 1]

\* async_run(), lines 67-72: update_all has returned `success` (not looked
\* at); the callback is called, then the dwell starts.
AfterUpdateAll(f, success, cbok) ==
    IF cbok
    THEN Out([NoTask EXCEPT !.pc = "dwell_chk", !.j = 1], 1, FALSE,
             IF success THEN "ok" ELSE "fail")
    ELSE Out(f, 1, TRUE, IF success THEN "ok" ELSE "fail")

\* connect(), line 139, after a burst with no attempt connected: the callback
\* is called and ends as cb.  When it returns, the five-minute sleep.  Its
\* exception leaves connect() and every connect() that awaits it at line 144:
\* a BleakError under update_all is caught at line 174, update_all returns
\* False and async_run calls the callback again (line 68, ending well or
\* not: cbok); any other exception, and any exception under async_run's own
\* call of connect(), reaches the handler of async_run.
FailedBurst(f, cb, cbok) ==
    CASE cb = "ok" -> Out([f EXCEPT !.pc = "conn_sleep"], 1, FALSE, "none")
      [] cb = "bleak" /\ f.caller = "poll" ->
           [AfterUpdateAll(f, FALSE, cbok) EXCEPT !.cb = 2]
      [] OTHER -> Out(f, 1, TRUE, "none")

\* Mutant: range(1, 10), nine attempts in a burst.
EndAttemptNine(f, cb, cbok) ==
    IF f.i < MaxAttempts - 1
    THEN Out([f EXCEPT !.i = f.i + 1, !.pc = "conn_connect"], 0, FALSE, "none")
    ELSE IF f.connected
         THEN Out([f EXCEPT !.pc = "conn_sub"], 0, FALSE, "none")
         ELSE FailedBurst(f, cb, cbok)

\* connect(), lines 126-144: the end of attempt i of the burst, after
\* "continue" (connected) or after the BleakError handler, which makes the
\* un-awaited asyncio.sleep(30) and goes on.  After the last attempt: the
\* subscription when an attempt connected; else the callback and what
\* follows it.
EndAttempt(f, cb, cbok) ==
    IF f.i < MaxAttempts
    THEN Out([f EXCEPT !.i = f.i + 1, !.pc = "conn_connect"], 0, FALSE, "none")
    ELSE IF f.connected
         THEN Out([f EXCEPT !.pc = "conn_sub"], 0, FALSE, "none")
         ELSE FailedBurst(f, cb, cbok)

\* connect(), line 144: await self.connect() after the sleep, a new frame.
Reconnect(f) ==
    [f EXCEPT !.pc = "conn_connect", !.i = 1, !.connected = FALSE,
              !.depth = f.depth + 1]

\* connect() returns after its subscription attempt: to the connect() that
\* awaited it at line 144, which goes on to its own subscription, or to
\* async_run (line 65 -> 67) or update_all (line 170 -> 171).
ReturnFromConnect(f) ==
    IF f.depth > 0
    THEN [f EXCEPT !.depth = f.depth - 1, !.connected = FALSE, !.pc = "conn_sub"]
    ELSE IF f.caller = "run" THEN EnterUpdateAll(f) ELSE StartReads(f)

\* async_run(), line 63: while self._loop, is_connected() of line 64 in flight.
WhileLoop(running) ==
    IF running THEN [NoTask EXCEPT !.pc = "run_chk"] ELSE DoneTask

\* Mutant: the handler awaits self.async_run() itself, a nested call in the
\* failing task.
RestartNested(ts, t) == [ts EXCEPT ![t] = WhileLoop(TRUE)]

\* Mutant: the try is inside the while loop, the failing task creates the next
\* task and goes on with its own loop.
RestartKeepsRunning(ts, t) ==
    [ts EXCEPT ![t] = WhileLoop(TRUE), ![NumTasks + 1] = ReadyTask]

\* async_run(), lines 75-77: the handler ends this task and creates the next.
Restart(ts, t) ==
    [ts EXCEPT ![t] = DoneTask, ![NumTasks + 1] = ReadyTask]

\* One resumption of task t: the frame, the event, and the restart when an
\* exception reached the handler (bounded by MaxTasks).
Resume(t, op, res, data, out) ==
    /\ out.exc => NumTasks < MaxTasks
    /\ tasks' = IF out.exc THEN Restart(tasks, t)
                ELSE [tasks EXCEPT ![t] = out.f]
    /\ ev' = [op |-> op, res |-> res, cb |-> out.cb, exc |-> out.exc,
              poll |-> out.poll, data |-> data]

Raise(f) == Out(f, 0, TRUE, "none")
Goto(f) == Out(f, 0, FALSE, "none")

\* ------------------------------------------------------------- async_run
\* The task starts: self._loop = True, the loop condition, is_connected().
Start(t) ==
    /\ tasks[t].pc = "ready"
    /\ loop' = TRUE
    /\ Resume(t, "start", "ok", <<>>, Goto(WhileLoop(TRUE)))
    /\ UNCHANGED <<wire, wr, sweep, device, use_metric, clientConnected, subscribed, dis>>

\* Line 64: is_connected() answers; connect() when not connected, then
\* update_all().
RunCheck(t) ==
    /\ tasks[t].pc = "run_chk"
    /\ \E res \in Results :
         Resume(t, "run_chk", res, <<>>,
                IF res # "ok" THEN Raise(tasks[t])
                ELSE IF clientConnected THEN Goto(EnterUpdateAll(tasks[t]))
                ELSE Goto(EnterConnect(tasks[t], "run")))
    /\ UNCHANGED <<wire, wr, sweep, loop, device, use_metric, clientConnected, subscribed, dis>>

\* Line 72: is_connected() of the dwell answers (the answer is dropped).
DwellCheck(t) ==
    /\ tasks[t].pc = "dwell_chk"
    /\ \E res \in Results :
         Resume(t, "dwell_chk", res, <<>>,
                IF res # "ok" THEN Raise(tasks[t])
                ELSE Goto([tasks[t] EXCEPT !.pc = "dwell_sleep"]))
    /\ UNCHANGED <<wire, wr, sweep, loop, device, use_metric, clientConnected, subscribed, dis>>

\* Line 73: asyncio.sleep(2) is over; after the 15th, the loop condition.
DwellSleep(t) ==
    /\ tasks[t].pc = "dwell_sleep"
    /\ Resume(t, "dwell_sleep", "ok", <<>>,
              IF tasks[t].j < DwellChecks
              THEN Goto([tasks[t] EXCEPT !.pc = "dwell_chk", !.j = tasks[t].j + 1])
              ELSE Goto(WhileLoop(loop)))
    /\ UNCHANGED <<wire, wr, sweep, loop, device, use_metric, clientConnected, subscribed, dis>>

\* --------------------------------------------------------------- connect
\* Line 128: client.connect() ends.  A BleakError ends the attempt; any other
\* exception leaves connect().
ConnectAttempt(t) ==
    /\ tasks[t].pc = "conn_connect"
    /\ \E res \in Results :
       \E cb \in IF res = "bleak" /\ tasks[t].i = MaxAttempts
                 THEN Results ELSE {"ok"} :
       \E cbok \in IF cb = "bleak" THEN BOOLEAN ELSE {TRUE} :
         /\ Resume(t, "conn_connect", res, <<>>,
                   CASE res = "ok" -> Goto([tasks[t] EXCEPT !.pc = "conn_pair"])
                     [] res = "bleak" -> EndAttempt(tasks[t], cb, cbok)
                     [] OTHER -> Raise(tasks[t]))
         /\ clientConnected' = (clientConnected \/ res = "ok")
    /\ UNCHANGED <<wire, wr, sweep, loop, device, use_metric, subscribed, dis>>

\* Line 129: client.pair() ends; on success connected = True and "continue".
PairAttempt(t) ==
    /\ tasks[t].pc = "conn_pair"
    /\ \E res \in Results :
       \E cb \in IF res = "bleak" /\ tasks[t].i = MaxAttempts
                 THEN Results ELSE {"ok"} :
       \E cbok \in IF cb = "bleak" THEN BOOLEAN ELSE {TRUE} :
         /\ res = "ok" => clientConnected
         /\ Resume(t, "conn_pair", res, <<>>,
                   CASE res = "ok" ->
                          EndAttempt([tasks[t] EXCEPT !.connected = TRUE], cb,
                                     cbok)
                     [] res = "bleak" -> EndAttempt(tasks[t], cb, cbok)
                     [] OTHER -> Raise(tasks[t]))
    /\ UNCHANGED <<wire, wr, sweep, loop, device, use_metric, clientConnected, subscribed, dis>>

\* Lines 143-144: asyncio.sleep(5 * 60) is over, connect() calls itself.
ConnectSleep(t) ==
    /\ tasks[t].pc = "conn_sleep"
    /\ tasks[t].depth < MaxDepth
    /\ Resume(t, "conn_sleep", "ok", <<>>, Goto(Reconnect(tasks[t])))
    /\ UNCHANGED <<wire, wr, sweep, loop, device, use_metric, clientConnected, subscribed, dis>>

\* Mutant: only "except BleakError" at the subscription, any other exception
\* leaves connect().
SubscribeStepBleakOnly(f, res) ==
    IF res = "other" THEN Raise(f) ELSE Goto(ReturnFromConnect(f))

\* Lines 146-152: the try around start_notify has "except BleakError" and
\* "except Exception", which both only log: connect() returns whatever the
\* subscription did.
SubscribeStep(f, res) == Goto(ReturnFromConnect(f))

\* Lines 146-152: start_notify ends.
Subscribe(t) ==
    /\ tasks[t].pc = "conn_sub"
    /\ \E res \in Results :
         /\ res = "ok" => clientConnected
         /\ Resume(t, "conn_sub", res, <<>>, SubscribeStep(tasks[t], res))
         /\ subscribed' = (subscribed \/ res = "ok")
    /\ UNCHANGED <<wire, wr, sweep, loop, device, use_metric, clientConnected, dis>>

\* ------------------------------------------------------------ update_all
\* Line 169: is_connected() answers inside the try of update_all.
PollCheck(t) ==
    /\ tasks[t].pc = "poll_chk"
    /\ \E res \in Results, cbok \in BOOLEAN :
         Resume(t, "poll_chk", res, <<>>,
                CASE res = "ok" ->
                       IF clientConnected THEN Goto(StartReads(tasks[t]))
                       ELSE Goto(EnterConnect(tasks[t], "poll"))
                  [] res = "bleak" -> AfterUpdateAll(tasks[t], FALSE, cbok)
                  [] OTHER -> Raise(tasks[t]))
    /\ UNCHANGED <<wire, wr, sweep, loop, device, use_metric, clientConnected, subscribed, dis>>

\* update_led_colour, update_current_temp, update_target_temp,
\* update_battery: whether the payload decodes, and the value stored.
Decodes(attr, payload) ==
    CASE attr = "led_colour" -> ColourDecodes(payload)
      [] attr = "battery" -> BatteryDecodes(payload)
      [] OTHER -> TRUE

Stored(attr, payload, old) ==
    [led_colour |-> IF attr = "led_colour" THEN ColourFromBytes(payload)
                    ELSE old.led_colour,
     current_temp |-> IF attr = "current_temp"
                      THEN TempFromBytes(payload, use_metric)
                      ELSE old.current_temp,
     target_temp |-> IF attr = "target_temp"
                     THEN TempFromBytes(payload, use_metric)
                     ELSE old.target_temp,
     battery |-> IF attr = "battery" THEN BatteryFromBytes(payload)
                 ELSE old.battery]

Attrs ==
    [led_colour |-> led_colour_rgb, current_temp |-> current_temp,
     target_temp |-> target_temp, battery |-> battery]

\* Mutant: each read has its own try/except, a BleakError skips to the next.
ReadStepKeepsGoing(f, res, payload, cbok) ==
    CASE res = "other" -> Raise(f)
      [] res = "ok" /\ ~Decodes(UpdateAttrs[f.k], payload) -> Raise(f)
      [] OTHER ->
           IF f.k < Len(UpdateAttrs)
           THEN Goto([f EXCEPT !.k = f.k + 1])
           ELSE AfterUpdateAll(f, res = "ok", cbok)

\* update_all, lines 171-177, at read k: a BleakError ends the cycle with
\* success = False; a payload that decodes is stored and the next read is
\* issued (after the last, success = True); any other exception, a decoding
\* ValueError or IndexError included, leaves update_all.
ReadStep(f, res, payload, cbok) ==
    CASE res = "bleak" -> AfterUpdateAll(f, FALSE, cbok)
      [] res = "other" -> Raise(f)
      [] OTHER ->
           IF ~Decodes(UpdateAttrs[f.k], payload) THEN Raise(f)
           ELSE IF f.k < Len(UpdateAttrs)
                THEN Goto([f EXCEPT !.k = f.k + 1])
                ELSE AfterUpdateAll(f, TRUE, cbok)

PollRead(t) ==
    /\ tasks[t].pc = "poll_read"
    /\ \E res \in Results, cbok \in BOOLEAN :
       \E payload \in IF res = "ok" THEN ReadPayloads(tasks[t].k) ELSE {<<>>} :
         LET attr == UpdateAttrs[tasks[t].k]
             new == IF res = "ok" /\ Decodes(attr, payload)
                    THEN Stored(attr, payload, Attrs) ELSE Attrs
         IN  /\ res = "ok" => clientConnected
             /\ Resume(t, "poll_read", res, payload,
                       ReadStep(tasks[t], res, payload, cbok))
             /\ led_colour_rgb' = new.led_colour
             /\ current_temp' = new.current_temp
             /\ target_temp' = new.target_temp
             /\ battery' = new.battery
    /\ UNCHANGED <<wire, wr, sweep, loop, state, available, uuid_debug, use_metric,
                   clientConnected, subscribed, dis>>

\* ---------------------------------------------------------- state_notify
\* The client calls state_notify with the payload of a notification.
Notify ==
    /\ subscribed /\ clientConnected
    /\ \E data \in NotifyPayloads :
         /\ state' = StateAfterNotify(state, data)
         /\ ev' = [NoEvent EXCEPT !.op = "notify", !.data = data]
    /\ UNCHANGED <<wire, wr, sweep, loop, led_colour_rgb, current_temp, target_temp, battery,
                   available, uuid_debug, use_metric, clientConnected, subscribed,
                   tasks, dis>>

\* The radio link drops.
ConnectionLost ==
    /\ clientConnected
    /\ clientConnected' = FALSE
    /\ subscribed' = FALSE
    /\ ev' = [NoEvent EXCEPT !.op = "lost"]
    /\ UNCHANGED <<wire, wr, sweep, loop, device, use_metric, tasks, dis>>

\* ------------------------------------------------------------ disconnect
\* disconnect() is called: self._loop = False, stop_notify in flight.
DisconnectCall ==
    /\ dis.pc = "idle"
    /\ dis.calls < MaxDisconnects
    /\ loop' = FALSE
    /\ dis' = [pc |-> "stop_notify", calls |-> dis.calls + 1]
    /\ ev' = [NoEvent EXCEPT !.op = "disconnect"]
    /\ UNCHANGED <<wire, wr, sweep, device, use_metric, clientConnected, subscribed, tasks>>

\* contextlib.suppress(BleakError): only a BleakError is swallowed.
Suppressed(res) == res # "other"

\* Lines 183-187: stop_notify ends; is_connected() in flight next.
DisconnectStopNotify ==
    /\ dis.pc = "stop_notify"
    /\ \E res \in Results :
         /\ res = "ok" => clientConnected
         /\ subscribed' = (subscribed /\ res # "ok")
         /\ dis' = [dis EXCEPT !.pc = IF Suppressed(res) THEN "is_connected"
                                      ELSE "idle"]
         /\ ev' = [NoEvent EXCEPT !.op = "stop_notify", !.res = res,
                                  !.exc = ~Suppressed(res)]
    /\ UNCHANGED <<wire, wr, sweep, loop, device, use_metric, clientConnected, tasks>>

\* Lines 187-188: is_connected() answers; client.disconnect() when connected.
DisconnectCheck ==
    /\ dis.pc = "is_connected"
    /\ \E res \in Results :
         /\ dis' = [dis EXCEPT !.pc = IF res = "ok" /\ clientConnected
                                      THEN "disconnect" ELSE "idle"]
         /\ ev' = [NoEvent EXCEPT !.op = "is_connected", !.res = res,
                                  !.exc = ~Suppressed(res)]
    /\ UNCHANGED <<wire, wr, sweep, loop, device, use_metric, clientConnected, subscribed, tasks>>

\* Line 188: client.disconnect() ends and disconnect() returns.
DisconnectClient ==
    /\ dis.pc = "disconnect"
    /\ \E res \in Results :
         /\ clientConnected' = (clientConnected /\ res # "ok")
         /\ subscribed' = (subscribed /\ res # "ok")
         /\ dis' = [dis EXCEPT !.pc = "idle"]
         /\ ev' = [NoEvent EXCEPT !.op = "client_disconnect", !.res = res,
                                  !.exc = ~Suppressed(res)]
    /\ UNCHANGED <<wire, wr, sweep, loop, device, use_metric, tasks>>

\* ------------------------------------------------------- specification
Next ==
    \/ \E t \in TaskIds : Start(t)
    \/ \E t \in TaskIds : RunCheck(t)
    \/ \E t \in TaskIds : ConnectAttempt(t)
    \/ \E t \in TaskIds : PairAttempt(t)
    \/ \E t \in TaskIds : ConnectSleep(t)
    \/ \E t \in TaskIds : Subscribe(t)
    \/ \E t \in TaskIds : PollCheck(t)
    \/ \E t \in TaskIds : PollRead(t)
    \/ \E t \in TaskIds : DwellCheck(t)
    \/ \E t \in TaskIds : DwellSleep(t)
    \/ Notify
    \/ ConnectionLost
    \/ DisconnectCall
    \/ DisconnectStopNotify
    \/ DisconnectCheck
    \/ DisconnectClient

Spec == Init /\ [][Next]_vars

\* The session while disconnect() is not called: the event loop runs every
\* task it was given (async_create_task), so a created task does start.
LoopNext ==
    \/ \E t \in TaskIds : Start(t)
    \/ \E t \in TaskIds : RunCheck(t)
    \/ \E t \in TaskIds : ConnectAttempt(t)
    \/ \E t \in TaskIds : PairAttempt(t)
    \/ \E t \in TaskIds : ConnectSleep(t)
    \/ \E t \in TaskIds : Subscribe(t)
    \/ \E t \in TaskIds : PollCheck(t)
    \/ \E t \in TaskIds : PollRead(t)
    \/ \E t \in TaskIds : DwellCheck(t)
    \/ \E t \in TaskIds : DwellSleep(t)
    \/ Notify
    \/ ConnectionLost

LoopSpec == Init /\ [][LoopNext]_vars /\ WF_vars(\E t \in TaskIds : Start(t))

\* ------------------------------------------------------ set_target_temp
\* Temperatures (hundredths of a degree) a caller passes to set_target_temp:
\* one that fits the two-byte payload and one that does not.
SetTemps == {5500, 70000}

\* Line 11 for each of them: int(temp / 0.01).
IntOfSetTemps == [h \in SetTemps |-> IntOfTempOver001(h)]

\* Mutant: set_target_temp records the temperature it sends.
AttrsAfterSetTargetTempStores(old, h) == [old EXCEPT !.target_temp = h]

\* set_target_temp assigns no attribute of the mug: the attributes after a
\* call with temperature h are the attributes before it.
AttrsAfterSetTargetTemp(old, h) == old

\* Lines 10-12: the payload is built and write_gatt_char is in flight; the
\* OverflowError of to_bytes goes to the caller at once.
SetTargetTempCall ==
    /\ wr = "idle"
    /\ \E h \in SetTemps :
         LET fits == FitsTwoBytes(IntOfSetTemps[h])
             new == AttrsAfterSetTargetTemp(Attrs, h)
         IN  /\ wr' = IF fits THEN "write" ELSE "idle"
             /\ ev' = [NoEvent EXCEPT
                         !.op = "set_target_temp",
                         !.exc = ~fits,
                         !.data = IF fits THEN ToBytesLittle(IntOfSetTemps[h])
                                  ELSE <<>>]
             /\ led_colour_rgb' = new.led_colour
             /\ current_temp' = new.current_temp
             /\ target_temp' = new.target_temp
             /\ battery' = new.battery
    /\ UNCHANGED <<wire, sweep, loop, state, available, uuid_debug, use_metric,
                   clientConnected, subscribed, tasks, dis>>

\* Lines 12-13: write_gatt_char ends; its exception goes to the caller.
SetTargetTempDone ==
    /\ wr = "write"
    /\ \E res \in Results :
         /\ res = "ok" => clientConnected
         /\ wr' = "idle"
         /\ ev' = [NoEvent EXCEPT !.op = "write", !.res = res,
                                  !.exc = (res # "ok")]
    /\ UNCHANGED <<wire, sweep, loop, device, use_metric, clientConnected,
                   subscribed, tasks, dis>>

\* The session with the service: callers of set_target_temp beside the loop
\* tasks, the notifications and the caller of disconnect(), while the radio
\* link is not dropped from outside.
ServiceNext ==
    \/ \E t \in TaskIds : Start(t)
    \/ \E t \in TaskIds : RunCheck(t)
    \/ \E t \in TaskIds : ConnectAttempt(t)
    \/ \E t \in TaskIds : PairAttempt(t)
    \/ \E t \in TaskIds : ConnectSleep(t)
    \/ \E t \in TaskIds : Subscribe(t)
    \/ \E t \in TaskIds : PollCheck(t)
    \/ \E t \in TaskIds : PollRead(t)
    \/ \E t \in TaskIds : DwellCheck(t)
    \/ \E t \in TaskIds : DwellSleep(t)
    \/ Notify
    \/ DisconnectCall
    \/ DisconnectStopNotify
    \/ DisconnectCheck
    \/ DisconnectClient
    \/ SetTargetTempCall
    \/ SetTargetTempDone

ServiceSpec == Init /\ [][ServiceNext]_vars

\* ----------------------------------------------------- update_uuid_debug
\* Payloads a read of a diagnostic characteristic may return.
UuidDebugPayloads == {<<7>>}

\* Lines 117-121, one pass of the for loop: a value read is stored as
\* str(value); a BleakError is logged, and any other exception leaves the
\* method, the reading staying as it was.
UpdateUuidDebug(old, uuid, res, value) ==
    IF res = "ok" THEN [old EXCEPT ![uuid] = <<value>>] ELSE old

\* update_uuid_debug() is called: the read of the first characteristic is in
\* flight.  No line of the repository makes this call.
UuidDebugCall ==
    /\ sweep.pc = "idle"
    /\ sweep' = [pc |-> "read", n |-> 1]
    /\ ev' = [NoEvent EXCEPT !.op = "update_uuid_debug"]
    /\ UNCHANGED <<wire, wr, loop, device, use_metric, clientConnected,
                   subscribed, tasks, dis>>

\* Line 117: read_gatt_char of characteristic n ends; after a value or a
\* BleakError the next characteristic is read, after the last one and after
\* any other exception the method is left.
UuidDebugRead ==
    /\ sweep.pc = "read"
    /\ \E res \in Results :
       \E value \in IF res = "ok" THEN UuidDebugPayloads ELSE {<<>>} :
         /\ res = "ok" => clientConnected
         /\ uuid_debug' = UpdateUuidDebug(uuid_debug, UnknownReadUuids[sweep.n],
                                          res, value)
         /\ sweep' = IF res # "other" /\ sweep.n < Len(UnknownReadUuids)
                     THEN [sweep EXCEPT !.n = sweep.n + 1]
                     ELSE NoSweep
         /\ ev' = [NoEvent EXCEPT !.op = "debug_read", !.res = res,
                                  !.exc = (res = "other"), !.data = value]
    /\ UNCHANGED <<wire, wr, loop, state, led_colour_rgb, current_temp,
                   target_temp, battery, available, use_metric, clientConnected,
                   subscribed, tasks, dis>>

\* The session with a caller of update_uuid_debug() beside the loop tasks.
SweepNext ==
    \/ LoopNext
    \/ UuidDebugCall
    \/ UuidDebugRead

SweepSpec == Init /\ [][SweepNext]_vars

\* ------------------------------------------------- codec specification
\* The decoding and encoding methods applied to one payload each: a read of
\* the colour or of the target temperature returns wire.data; the target
\* temperature then stored is written back with set_target_temp.
ByteSamples == {0, 128, 255}
Bytes == 0..255

RECURSIVE SeqsUpTo(_, _)
SeqsUpTo(S, n) ==
    IF n = 0 THEN {<<>>}
    ELSE LET shorter == SeqsUpTo(S, n - 1)
         IN  shorter \cup {Append(q, x) : q \in shorter, x \in S}

\* Colour payloads of 0 to 5 bytes.
ColourInputs == SeqsUpTo(ByteSamples, 5)
\* Every two-byte temperature payload.
TempInputs == {<<lo, hi>> : lo \in Bytes, hi \in Bytes}

CodecInit ==
    /\ loop = FALSE
    /\ state = None
    /\ led_colour_rgb = <<255, 255, 255>>
    /\ current_temp = None
    /\ target_temp = None
    /\ battery = None
    /\ available = FALSE
    /\ uuid_debug = [uuid \in UuidDebugKeys |-> NoReading]
    /\ use_metric \in BOOLEAN
    /\ clientConnected = TRUE
    /\ subscribed = FALSE
    /\ tasks = [t \in TaskIds |-> IF t = 1 THEN ReadyTask ELSE NoTask]
    /\ dis = [pc |-> "idle", calls |-> 0]
    /\ wr = "idle"
    /\ sweep = NoSweep
    /\ \/ \E data \in TempInputs :
            wire = [dir |-> "read", attr |-> "target_temp", data |-> data]
       \/ \E data \in ColourInputs :
            wire = [dir |-> "read", attr |-> "led_colour", data |-> data]
    /\ ev = NoEvent

\* update_target_temp: the payload read is decoded and stored.
CodecUpdateTargetTemp ==
    /\ wire.dir = "read" /\ wire.attr = "target_temp"
    /\ target_temp' = TempFromBytes(wire.data, use_metric)
    /\ wire' = [wire EXCEPT !.dir = "stored"]
    /\ UNCHANGED <<loop, state, led_colour_rgb, current_temp, battery, available,
                   uuid_debug, use_metric, clientConnected, subscribed, tasks,
                   dis, wr, sweep, ev>>

\* set_target_temp(self, self.target_temp): the payload written, or the
\* OverflowError of to_bytes.
CodecSetTargetTemp ==
    /\ wire.dir = "stored" /\ wire.attr = "target_temp"
    /\ wire' = IF FitsTwoBytes(IntOfTempOver001(target_temp))
               THEN [wire EXCEPT !.dir = "written",
                                 !.data = TargetTempPayload(target_temp)]
               ELSE [wire EXCEPT !.dir = "error"]
    /\ UNCHANGED <<loop, device, use_metric, clientConnected, subscribed, tasks,
                   dis, wr, sweep, ev>>

\* update_led_colour: the payload read is unpacked and stored, or the
\* unpacking raises ValueError.
CodecUpdateLedColour ==
    /\ wire.dir = "read" /\ wire.attr = "led_colour"
    /\ IF ColourDecodes(wire.data)
       THEN /\ led_colour_rgb' = ColourFromBytes(wire.data)
            /\ wire' = [wire EXCEPT !.dir = "stored"]
       ELSE /\ led_colour_rgb' = led_colour_rgb
            /\ wire' = [wire EXCEPT !.dir = "error"]
    /\ UNCHANGED <<loop, state, current_temp, target_temp, battery, available,
                   uuid_debug, use_metric, clientConnected, subscribed, tasks,
                   dis, wr, sweep, ev>>

CodecNext ==
    \/ CodecUpdateTargetTemp
    \/ CodecSetTargetTemp
    \/ CodecUpdateLedColour

CodecSpec == CodecInit /\ [][CodecNext]_vars

\* ---------------------------------------------------------------- claims
LoopOps == {"start", "run_chk", "conn_connect", "conn_pair", "conn_sleep",
            "conn_sub", "poll_chk", "poll_read", "dwell_chk", "dwell_sleep"}
DisconnectOps == {"stop_notify", "is_connected", "client_disconnect"}

\* A step in which task t begins a loop iteration (line 63 found true).
IterationStarts(t) ==
    /\ tasks[t].pc \in {"ready", "dwell_sleep"}
    /\ tasks'[t].pc = "run_chk"

\* C1: once disconnect() has been called, no task starts another loop
\* iteration (the loop exits at its next check of _loop and stays out).
C1_NoIterationAfterDisconnect ==
    [][dis.calls > 0 => \A t \in TaskIds : ~IterationStarts(t)]_vars

\* A step taken by task t (its frame changes in every resumption).
StepOf(t) == tasks'[t] # tasks[t] /\ tasks[t].pc \notin {"none", "done"}

\* C2: while disconnect() is not called, there is always a live loop task;
\* every exception that reaches the handler of async_run ends the failing
\* task and leaves exactly one new task, created and not yet run (not a call
\* nested in the old one); and a created task goes on to run an iteration.
C2_RestartAfterException ==
    /\ [](LiveTasks # {})
    /\ [][\A t \in TaskIds :
            (StepOf(t) /\ ev'.exc) =>
                /\ tasks'[t] = DoneTask
                /\ \E u \in TaskIds :
                     /\ tasks[u].pc = "none"
                     /\ tasks'[u].pc = "ready"
                     /\ LiveTasks' = {u}]_vars
    /\ ((\E t \in TaskIds : tasks[t].pc = "ready")
           ~> (\E t \in TaskIds : tasks[t].pc = "run_chk"))

\* C2 witness: the first task failed and the task created by its handler has
\* started an iteration.
C2_Witness ==
    /\ tasks[1] = DoneTask
    /\ tasks[2].pc = "run_chk"
    /\ ev.op = "start"

\* C3: a transport error of connect or pair is never raised out of connect()
\* (only the callback of a failed burst can raise there: its exception
\* reaches the handler of async_run or, a BleakError under update_all, ends
\* the poll cycle with success = False and a second call of the callback, by
\* async_run); connect() calls the callback once, and enters the five-minute
\* sleep when the callback returns, exactly when the tenth attempt of a
\* burst fails with no attempt having connected, and on no earlier failure;
\* the first attempt of a further burst is made only when that sleep is over.
C3_BurstOfTen ==
    [][\A t \in TaskIds :
         LET f == tasks[t]
             g == tasks'[t]
             allFailed == f.i = 10 /\ ~f.connected
         IN  /\ (StepOf(t) /\ f.pc \in {"conn_connect", "conn_pair"}
                   /\ ev'.res = "bleak") =>
                     /\ ev'.cb = (IF ~allFailed THEN 0
                                  ELSE IF ev'.poll = "fail" THEN 2 ELSE 1)
                     /\ (ev'.exc \/ ev'.poll = "fail" \/ g.pc \in ConnectPcs)
                     /\ (ev'.exc \/ ev'.poll = "fail") => allFailed
                     /\ ev'.poll = "fail" => f.caller = "poll"
                     /\ ev'.poll # "ok"
                     /\ (~ev'.exc /\ ev'.poll = "none") =>
                          /\ (g.pc = "conn_sleep") = allFailed
                          /\ f.i < 10 => (g.pc = "conn_connect" /\ g.i = f.i + 1)
             /\ (StepOf(t) /\ f.pc \in ConnectPcs
                   /\ g.pc = "conn_connect" /\ g.i = 1) =>
                     /\ f.pc = "conn_sleep"
                     /\ g.depth = f.depth + 1]_vars

\* C3 witness: a second burst has failed ten times too, has signalled, and
\* waits.
C3_Witness ==
    \E t \in TaskIds :
      /\ tasks[t].pc = "conn_sleep"
      /\ tasks[t].depth = 1
      /\ tasks[t].i = 10
      /\ ev.op \in {"conn_connect", "conn_pair"}
      /\ ev.res = "bleak"
      /\ ev.cb = 1

\* C4: a notification whose first byte is n stores n when n is neither 1 nor
\* the current status, and changes nothing otherwise; the status is never 1.
C4_NotifyStatus ==
    /\ [](state # 1)
    /\ [][ev'.op = "notify" =>
            LET n == ev'.data[1]
            IN  state' = IF n # 1 /\ n # state THEN n ELSE state]_vars

\* C4 witness: a notification of 1 has arrived at status 3 and left it.
C4_Witness ==
    /\ ev.op = "notify"
    /\ ev.data[1] = 1
    /\ state = 3

\* C5: the reads of a poll cycle are colour, current temperature, target
\* temperature, battery, in this order; a read that succeeds stores its
\* field only and issues the next one; a read that fails with a transport
\* error changes no field, issues no further read and ends the cycle with
\* success = False; no other step changes the four fields.
C5_PollPartialFailure ==
    [][/\ ev'.op # "poll_read" => Attrs' = Attrs
       /\ \A t \in TaskIds :
            LET f == tasks[t]
                g == tasks'[t]
                payload == ev'.data
                raw == payload[1] + 256 * payload[2]
                temp == IF use_metric THEN raw
                        ELSE (2 * (9 * raw + 16000) + 5) \div 10
            IN  (StepOf(t) /\ f.pc = "poll_read") =>
                  /\ f.k \in 1..4
                  /\ (ev'.res = "bleak") =>
                        /\ Attrs' = Attrs
                        /\ ev'.poll = "fail"
                        /\ g.pc # "poll_read"
                  /\ (ev'.res = "ok" /\ ~ev'.exc /\ f.k = 1) =>
                        /\ Attrs' = [Attrs EXCEPT !.led_colour = SubSeq(payload, 1, 3)]
                        /\ g.pc = "poll_read" /\ g.k = 2
                  /\ (ev'.res = "ok" /\ ~ev'.exc /\ f.k = 2) =>
                        /\ Attrs' = [Attrs EXCEPT !.current_temp = temp]
                        /\ g.pc = "poll_read" /\ g.k = 3
                  /\ (ev'.res = "ok" /\ ~ev'.exc /\ f.k = 3) =>
                        /\ Attrs' = [Attrs EXCEPT !.target_temp = temp]
                        /\ g.pc = "poll_read" /\ g.k = 4
                  /\ (ev'.res = "ok" /\ f.k = 4 /\ Len(payload) > 0) =>
                        /\ Attrs' = [Attrs EXCEPT !.battery = payload[1]]
                        /\ ev'.poll = "ok"
                        /\ g.pc # "poll_read"]_vars

\* C5 witness: the third read has failed after two successes; colour and
\* current temperature are new, target temperature and battery untouched.
C5_Witness ==
    /\ ev.op = "poll_read"
    /\ ev.res = "bleak"
    /\ ev.poll = "fail"
    /\ led_colour_rgb = <<10, 20, 30>>
    /\ current_temp = 2150
    /\ target_temp = None
    /\ battery = None

\* C6: the callback is called in the step that ends a successful poll cycle
\* and in every notification step that changes the stored status.
C6_CallbackAfterChange ==
    [][/\ ev'.poll = "ok" => ev'.cb = 1
       /\ (ev'.op = "notify" /\ state' # state) => ev'.cb = 1]_vars

\* C7: no step of disconnect() raises to its caller; the unsubscribe comes
\* first, and client.disconnect() is called only after is_connected() has
\* answered while the client is connected.
C7_DisconnectNeverRaises ==
    [][/\ ev'.op \in DisconnectOps => ~ev'.exc
       /\ (dis'.pc = "stop_notify") => dis.pc \in {"idle", "stop_notify"}
       /\ (dis'.pc = "is_connected") => dis.pc \in {"stop_notify", "is_connected"}
       /\ (dis'.pc = "disconnect" /\ dis.pc # "disconnect") =>
             (dis.pc = "is_connected" /\ clientConnected)]_vars

\* C8: available is true after every poll cycle whose four reads succeeded
\* (and false at session start).
C8_AvailableAfterPoll ==
    /\ ev.op = "init" => ~available
    /\ ev.poll = "ok" => available

\* C9: with the metric flag set, the payload that set_target_temp writes for
\* the temperature decoded from a two-byte payload decodes to that same
\* temperature (the two differ by less than one hundredth).
C9_TemperatureRoundTrip ==
    (wire.attr = "target_temp" /\ wire.dir = "written" /\ use_metric) =>
        TempFromBytes(wire.data, TRUE) = target_temp

\* C10 as claimed: a colour payload of three bytes or more stores its first
\* three bytes; a shorter one fails and leaves led_colour_rgb as it was.
C10_ColourAtLeastThree ==
    (wire.attr = "led_colour" /\ wire.dir # "read") =>
        IF Len(wire.data) >= 3
        THEN wire.dir = "stored" /\ led_colour_rgb = SubSeq(wire.data, 1, 3)
        ELSE wire.dir = "error" /\ led_colour_rgb = <<255, 255, 255>>

\* C10: a colour payload of exactly four bytes stores its first three bytes
\* and drops the fourth; a payload of any other length fails and leaves
\* led_colour_rgb as it was.
C10_ColourExactlyFour ==
    (wire.attr = "led_colour" /\ wire.dir # "read") =>
        IF Len(wire.data) = 4
        THEN wire.dir = "stored" /\ led_colour_rgb = SubSeq(wire.data, 1, 3)
        ELSE wire.dir = "error" /\ led_colour_rgb = <<255, 255, 255>>

\* C10 witness: the payload ff 00 80 00 has been stored as (255, 0, 128).
C10_Witness ==
    /\ wire = [dir |-> "stored", attr |-> "led_colour", data |-> <<255, 0, 128, 0>>]
    /\ led_colour_rgb = <<255, 0, 128>>


\* The awaits of a loop task in which an operation of the client is in
\* flight (is_connected, connect, pair, start_notify, read_gatt_char).
ClientPcs == {"run_chk", "conn_connect", "conn_pair", "conn_sub",
              "poll_chk", "poll_read", "dwell_chk"}

\* C11: one operation at a time is in flight on the client: while the write
\* of set_target_temp is in flight no loop task is inside a connect, a pair
\* or a read, and while disconnect() runs no loop task has an operation of
\* the client in flight.
C11_OneOperationInFlight ==
    /\ wr = "write" =>
         \A t \in TaskIds :
           tasks[t].pc \notin {"conn_connect", "conn_pair", "poll_read"}
    /\ dis.pc # "idle" =>
         \A t \in TaskIds : tasks[t].pc \notin ClientPcs

\* C12: in connect(), a failed attempt that is not the last of its burst is
\* followed by a suspension (the 30 seconds of line 135): the step in which
\* the attempt fails does not itself put the next client.connect() in flight.
C12_WaitAfterFailedAttempt ==
    [][\A t \in TaskIds :
         (/\ StepOf(t)
          /\ tasks[t].pc \in {"conn_connect", "conn_pair"}
          /\ ev'.res = "bleak"
          /\ tasks[t].i < MaxAttempts)
            => tasks'[t].pc # "conn_connect"]_vars

\* C13: a burst ends at its first successful attempt: the step in which
\* client.pair() succeeds puts the subscription in flight, and no
\* client.connect() or client.pair() is issued in a burst that has connected.
C13_BurstEndsAtSuccess ==
    [][\A t \in TaskIds :
         /\ (StepOf(t) /\ tasks[t].pc = "conn_pair" /\ ev'.res = "ok")
               => tasks'[t].pc = "conn_sub"
         /\ (StepOf(t) /\ tasks'[t].pc \in {"conn_connect", "conn_pair"})
               => ~tasks'[t].connected]_vars

\* C14: when a read of a poll cycle returns a payload that cannot be decoded,
\* update_all ends there and returns success = False: the decoding error does
\* not leave update_all, so the handler of async_run is reached only if the
\* callback that follows raises.
C14_DecodeErrorFailsPoll ==
    [][\A t \in TaskIds :
         (/\ StepOf(t)
          /\ tasks[t].pc = "poll_read"
          /\ ev'.res = "ok"
          /\ ~Decodes(UpdateAttrs[tasks[t].k], ev'.data))
            => /\ ev'.poll = "fail"
               /\ ev'.exc => ev'.cb = 1]_vars

\* update_all, lines 167 and 171-172: the update_<attr> methods a poll cycle
\* calls.
PollCalls == {UpdateAttrs[k] : k \in 1..Len(UpdateAttrs)}

\* C15: every poll cycle performs the diagnostic sweep: a cycle that has run
\* to its end has called update_uuid_debug among its updates.
C15_SweepEveryCycle ==
    (ev.op = "poll_read" /\ ev.poll = "ok") => "uuid_debug" \in PollCalls

\* C16: a subscription that fails, with a BleakError or with any other
\* exception, is not propagated: no exception reaches the handler of
\* async_run and no task is created, the subscription state stays as it was,
\* and connect() returns to its caller, which goes on: async_run to
\* update_all, update_all to its first read, and a connect() that awaited
\* this one at line 144 to the rest of its own body.
C16_SubscribeFailureNotFatal ==
    [][\A t \in TaskIds :
         LET f == tasks[t]
             g == tasks'[t]
         IN  (StepOf(t) /\ f.pc = "conn_sub" /\ ev'.res # "ok") =>
               /\ ~ev'.exc
               /\ ev'.op = "conn_sub"
               /\ \A u \in TaskIds \ {t} : tasks'[u] = tasks[u]
               /\ subscribed' = subscribed
               /\ f.depth = 0 =>
                    g.pc = (IF f.caller = "run" THEN "poll_chk" ELSE "poll_read")
               /\ f.depth > 0 =>
                    (g.pc = "conn_sub" /\ g.depth = f.depth - 1)]_vars

\* C16 witness: the subscription has just failed with an exception that is
\* not a BleakError, and the task is in the poll cycle of the same iteration,
\* connected and not subscribed.
C16_Witness ==
    /\ ev.op = "conn_sub" /\ ev.res = "other"
    /\ tasks[1].pc = "poll_chk"
    /\ clientConnected /\ ~subscribed

\* C17: the attributes of the mug are changed by the reads of a poll cycle
\* and by state_notify only: a call of set_target_temp, whether the payload
\* overflows, the write succeeds or the write fails, and every step of
\* disconnect() leave every attribute as it was, target_temp included.
C17_DeviceStateFrame ==
    [][/\ device' # device => ev'.op \in {"poll_read", "notify"}
       /\ ev'.op \in {"set_target_temp", "write"} \cup DisconnectOps
                       \cup {"disconnect"}
            => device' = device]_vars

\* C17 witness: a poll cycle has stored a target temperature, and a write of
\* another temperature by set_target_temp has just succeeded.
C17_Witness ==
    /\ ev.op = "write" /\ ev.res = "ok"
    /\ target_temp # None
    /\ \A h \in SetTemps : target_temp # h
    /\ dis.calls > 0

\* C18: once disconnect() has returned, no loop task calls client.connect()
\* or start_notify again.  Stated for the step that follows a normal return
\* of disconnect(): that step puts neither of them in flight.
C18_NoConnectAfterDisconnect ==
    [][(/\ dis.calls > 0
        /\ dis.pc = "idle"
        /\ ev.op \in DisconnectOps
        /\ ~ev.exc)
          => \A t \in TaskIds :
               ~(StepOf(t) /\ tasks'[t].pc \in {"conn_connect", "conn_sub"})]_vars

\* C19: a call of connect() by async_run or update_all issues one
\* subscription request, whatever the number of failed bursts before it: when
\* start_notify has ended, the task is back in its caller, and no second
\* start_notify is put in flight.
C19_OneSubscriptionPerConnect ==
    [][\A t \in TaskIds :
         (StepOf(t) /\ tasks[t].pc = "conn_sub")
            => tasks'[t].pc \in {"poll_chk", "poll_read"}]_vars

\* C20: at most one loop task is live at any time, so no two tasks are in a
\* poll cycle together; and a task is created only in a step in which a live
\* task ends in the handler of async_run, which leaves the new task as the
\* only live one.
C20_OneLiveTask ==
    /\ [](Cardinality(LiveTasks) <= 1)
    /\ [][\A u \in TaskIds :
            (tasks[u].pc = "none" /\ tasks'[u].pc # "none") =>
                /\ ev'.exc
                /\ tasks'[u] = ReadyTask
                /\ \E t \in TaskIds \ {u} :
                     /\ StepOf(t)
                     /\ tasks'[t] = DoneTask
                     /\ LiveTasks = {t}
                     /\ LiveTasks' = {u}]_vars

\* C20 witness: the first task has failed, disconnect() has been called, and
\* the task created by the restart is in the reads of a poll cycle.
C20_Witness ==
    /\ tasks[1] = DoneTask
    /\ tasks[2].pc = "poll_read"
    /\ dis.calls > 0

============================================================================
